---- MODULE Spec2Model ----
(***************************************************************************)
(* The capture orchestration controller of TVWS, Codebase/Collection/Local. *)
(*                                                                         *)
(* Two of the repository's variants of the controller are modelled as one  *)
(* state machine, selected by impl:                                        *)
(*   "run_collection"  app/collector.py: retry loop, attempt-scoped files, *)
(*                     promotion, readiness read from the receivers' logs; *)
(*   "run_session"     local_collect.py: run_session + run_capture, reader *)
(*                     threads, fallback timers, device guard, interrupt   *)
(*                     handler.                                            *)
(* The capture processes (hackrf_transfer) are the environment: they emit  *)
(* lines, exit with a code, and react to SIGTERM when they get to it.      *)
(* Time is abstract: a timeout may elapse whenever the wait it bounds is   *)
(* reached.                                                                *)
(***************************************************************************)
EXTENDS Integers, Sequences, FiniteSets, TLC

\* ---------------------------------------------------------------- bounds
MaxRuns == 2
MaxAttempts == 2
MaxPolls == 2
MaxOut == 2
MaxTime == 80

\* ------------------------------------------------------ program constants
ExitAborted == 1
ExitInterrupt == 130
RetNoReceivers == 2
RetDiedBeforeReady == 3
RetReadyTimeout == 4

\* tx/controller_lib.py run_capture's return values
LibToolMissing == 1
LibDiedBeforeReady == 2
LibReadyTimeout == 3

\* returncode of a process ended by SIGTERM (Popen.returncode = -signal)
SigTermRc == 0 - 15

\* times are in tenths of a second
Grace == 20           \* deadline = ... + 2.0
MinRemaining == 1     \* max(0.1, deadline - time.monotonic())
TermGrace == 20       \* proc.wait(timeout=2.0) after proc.terminate()
CollectorFloor == 20  \* max(2.0, cfg.safety_margin_s + 2.0)

RX == {"rx1", "rx2"}
PROCS == {"rx1", "rx2", "tx"}
Lines == {"armed", "noise"}
NoFile == <<>>

VARIABLES
  impl,        \* which controller runs: "run_collection" or "run_session"
  cfg,         \* the run configuration (read-only)
  pc,          \* the position of the controller's main thread
  run,         \* the run index i
  attempt,     \* the attempt index of run_collection's retry loop
  ok,          \* run_collection: ok1/ok2 of _wait_for_log_text
  ret,         \* run_session: the value run_capture returned
  result,      \* how the last ended attempt ended: none, Succeeded, Failed
  exitStatus,  \* the controller's exit status once pc = "exit"
  exitCause,   \* none, done, aborted, interrupt, config
  pst,         \* per process of the current attempt: none, live, exited, killed
  rc,          \* its returncode once exited
  term,        \* a SIGTERM sent by pkill that the process has not acted on
  stragglers,  \* slots whose process of an earlier attempt is still alive
  ready,       \* the readiness signal per receiver
  timer,       \* run_session: the fallback Timer per receiver
  reader,      \* run_session: the reader thread per receiver
  matched,     \* run_session: the reader thread read a matching line
  canon,       \* the run directory: the canonical rx1.iq / rx2.iq
  tryIq,       \* the run directory, per attempt: rx{1,2}_try{k}.iq
  tryLog,      \* the run directory, per attempt: {rx1,rx2,tx}_try{k}.log exists
  latest,      \* the run the Latest directory mirrors (0: none)
  nAttempts,   \* attempts of the current run that were started
  nFailed,     \* attempts of the current run that ended Failed
  nSleeps,     \* backoff sleeps taken in the current run
  succ,        \* the attempt of the current run that ended Succeeded (0: none)
  exhausted,   \* the first run whose attempts were exhausted (0: none)
  diedUnready, \* per receiver: exited non-zero while its signal was unset
  child,       \* run_capture_with_ready_handshake: its hackrf_transfer child
  wpc,         \* the position of the wrapper's loop
  readySent,   \* the wrapper's ready_sent
  elapsed,     \* ready_timeout_s has passed since the wrapper's start_t
  emitted,     \* the wrapper has read a line of its child
  readyOut,    \* READY lines the wrapper has printed
  joint,       \* the joint-readiness timeout of the attempt: none, running,
               \* met (elapsed with every signal set), missed (with one unset)
  gi,          \* the busy guard: the position in GuardOrder being checked
  polls,       \* wait_hackrf_free: polls of its loop that found a process
  free,        \* per serial slot: what the guard's latest wait returned
  aliveAll,    \* every poll of that wait found a matching process alive
  goneAtStart, \* no matching process was alive when that wait began
  preBusy,     \* the slots whose pre-run wait of this run returned False
  warned,      \* the [WARN] lines of this run, as <<guard, slot>>
  out,         \* per receiver: the output its process has emitted, in order
  pipe,        \* the part of it still in the stdout pipe
  log,         \* the contents of the receiver's log file
  now,         \* the time since the completion wait began, in tenths of a second
  waitTo,      \* the time at which the wait in progress times out
  treatedAt    \* per receiver: when its wait timed out (-1: it did not)

confv == <<impl, cfg>>
orchv == <<pc, run, attempt, ok, ret, result, exitStatus, exitCause>>
procv == <<pst, rc, term, stragglers>>
sigv  == <<ready, timer, reader, matched>>
filev == <<canon, tryIq, tryLog, latest>>
histv == <<nAttempts, nFailed, nSleeps, succ, exhausted, diedUnready>>
wrapv == <<child, wpc, readySent, elapsed, emitted, readyOut>>
guardv == <<gi, polls, free, aliveAll, goneAtStart, preBusy, warned>>
teev == <<out, pipe, log>>
timev == <<now, waitTo, treatedAt>>
vars  == <<confv, orchv, procv, sigv, filev, histv, wrapv, joint, guardv, teev,
           timev>>

Collector == impl = "run_collection"
Session   == impl = "run_session"

\* ----------------------------------------------------------- configuration
CollectorConfigs ==
  [runs : 1..MaxRuns, max_retries : 0..MaxAttempts, hw_trigger : BOOLEAN,
   enabled : {RX}, serials : {TRUE}]

SessionConfigs ==
  [runs : 1..MaxRuns, max_retries : {1}, hw_trigger : BOOLEAN,
   enabled : SUBSET RX, serials : BOOLEAN]

Attempts == 1..(MaxAttempts)
NoFiles == [r \in RX |-> NoFile]
NoLogs == [p \in PROCS |-> FALSE]

\* no wrapper is running
WrapIdle ==
  /\ child = [r \in RX |-> "none"]
  /\ wpc = [r \in RX |-> "none"]
  /\ readySent = [r \in RX |-> FALSE]
  /\ elapsed = [r \in RX |-> FALSE]
  /\ emitted = [r \in RX |-> FALSE]
  /\ readyOut = [r \in RX |-> 0]

\* no guard wait is in progress and none has returned
GuardIdle ==
  /\ gi = 0 /\ polls = 0
  /\ free = [p \in PROCS |-> "none"]
  /\ aliveAll = [p \in PROCS |-> TRUE]
  /\ goneAtStart = [p \in PROCS |-> FALSE]
  /\ preBusy = {}
  /\ warned = {}

\* the output of the receivers is not followed
TeeIdle ==
  /\ out = [r \in RX |-> <<>>]
  /\ pipe = [r \in RX |-> <<>>]
  /\ log = [r \in RX |-> <<>>]

\* no completion wait is timed
TimeIdle ==
  /\ now = 0 /\ waitTo = 0
  /\ treatedAt = [r \in RX |-> 0 - 1]

Init ==
  /\ impl \in {"run_collection", "run_session"}
  /\ GuardIdle
  /\ TeeIdle
  /\ TimeIdle
  /\ cfg \in (IF impl = "run_collection" THEN CollectorConfigs ELSE SessionConfigs)
  /\ WrapIdle
  /\ joint = "none"
  /\ pc = "start"
  /\ run = 0
  /\ attempt = 0
  /\ ok = [r \in RX |-> FALSE]
  /\ ret = 0
  /\ result = "none"
  /\ exitStatus = 0
  /\ exitCause = "none"
  /\ pst = [p \in PROCS |-> "none"]
  /\ rc = [p \in PROCS |-> 0]
  /\ term = [p \in PROCS |-> FALSE]
  /\ stragglers = {}
  /\ ready = [r \in RX |-> FALSE]
  /\ timer = [r \in RX |-> "idle"]
  /\ reader = [r \in RX |-> "idle"]
  /\ matched = [r \in RX |-> FALSE]
  /\ canon = NoFiles
  /\ tryIq = [k \in Attempts |-> NoFiles]
  /\ tryLog = [k \in Attempts |-> NoLogs]
  /\ latest = 0
  /\ nAttempts = 0
  /\ nFailed = 0
  /\ nSleeps = 0
  /\ succ = 0
  /\ exhausted = 0
  /\ diedUnready = [r \in RX |-> FALSE]

\* ------------------------------------------------------------------ helpers
\* an event whose set() flips it (a faulty Event, for comparison)
EventToggle(ev) == ~ev

\* threading.Event.set(): the event is set, whatever it was
EventSet(ev) == TRUE

\* any(...) in place of all(...) (a faulty readiness test, for comparison)
AnyReady(ev, en) == \E r \in en : ev[r]

\* all(ev.is_set() for _, ev in ready_events)
AllReady(ev, en) == \A r \in en : ev[r]

\* `<=` in place of `<` (a faulty retry test, for comparison)
HasRetryLeftOrLast(a, max) == a <= max

\* `if attempt < max_retries:` of the except handler
HasRetryLeft(a, max) == a < max

\* a replace that never raises (a faulty promotion, for comparison)
ReplaceNeverRaises(src) == FALSE

\* Path.replace raises (FileNotFoundError) when its source does not exist
ReplaceRaises(src) == src = NoFile

\* _terminate / terminate-wait-kill: a live process ends by the SIGTERM within
\* the grace wait ("exited") or is killed after it ("killed")
Terminated(st, how) == IF st = "live" THEN how ELSE st
TerminatedRc(st, how, code) ==
  IF st = "live" /\ how = "exited" THEN SigTermRc ELSE code

Dead(st) == st \in {"exited", "killed"}

\* the processes of the attempt that is being replaced which are still alive
\* when its Popen objects are dropped, by their slot
Leftover == {p \in PROCS : pst[p] = "live"}

\* the -d serial on a process's command line (<<>>: none given)
SerialOf(p) ==
  IF ~cfg.serials THEN <<>>
  ELSE IF p = "rx1" THEN <<1, 1>> ELSE IF p = "rx2" THEN <<1, 2>> ELSE <<2, 1>>

IsPrefix(s, t) == Len(s) <= Len(t) /\ SubSeq(t, 1, Len(s)) = s

\* pgrep/pkill -f "hackrf_transfer.*-d[[:space:]]*{serial}" against a command
\* line holding "-d <procSerial>"
PgrepMatches(serial, procSerial) ==
  procSerial # <<>> /\ IsPrefix(serial, procSerial)

\* cleanup_hackrf_all(serials): which process slots get a SIGTERM
Signalled(serials, p) ==
  \E s \in serials : s # <<>> /\ PgrepMatches(s, SerialOf(p))

\* ------------------------------------------------- the capture processes
\* run_collection: a receiver started with -H writes its "Waiting for
\* trigger" line to its attempt log (stdout goes to the log file)
RxWriteToLog(r) ==
  /\ Collector /\ cfg.hw_trigger /\ pc # "exit"
  /\ pst[r] = "live" /\ ~ready[r]
  /\ ready' = [ready EXCEPT ![r] = TRUE]
  /\ UNCHANGED <<confv, wrapv, guardv, teev, timev, joint, orchv, procv, timer, reader, matched, filev, histv>>

\* a process exits by itself with a code; a receiver of run_collection has
\* or has not produced its attempt-scoped output file by then
ProcExit(p, code, wrote) ==
  /\ pc # "exit"
  /\ pst[p] = "live"
  /\ pst' = [pst EXCEPT ![p] = "exited"]
  /\ rc' = [rc EXCEPT ![p] = code]
  /\ term' = [term EXCEPT ![p] = FALSE]
  /\ IF p \in RX
       THEN diedUnready' = [diedUnready EXCEPT ![p] = (code # 0 /\ ~ready[p])]
       ELSE UNCHANGED diedUnready
  /\ IF Collector /\ p \in RX /\ wrote
       THEN tryIq' = [tryIq EXCEPT ![attempt][p] = <<attempt, p>>]
       ELSE /\ wrote = FALSE
            /\ UNCHANGED tryIq
  /\ UNCHANGED <<confv, wrapv, guardv, teev, timev, joint, orchv, stragglers, sigv, canon, tryLog, latest,
                 nAttempts, nFailed, nSleeps, succ, exhausted>>

\* a process acts on a pending SIGTERM
ProcTermExit(p) ==
  /\ pc # "exit"
  /\ pst[p] = "live" /\ term[p]
  /\ pst' = [pst EXCEPT ![p] = "exited"]
  /\ rc' = [rc EXCEPT ![p] = SigTermRc]
  /\ term' = [term EXCEPT ![p] = FALSE]
  /\ IF p \in RX
       THEN diedUnready' = [diedUnready EXCEPT ![p] = ~ready[p]]
       ELSE UNCHANGED diedUnready
  /\ UNCHANGED <<confv, wrapv, guardv, teev, timev, joint, orchv, stragglers, sigv, filev,
                 nAttempts, nFailed, nSleeps, succ, exhausted>>

\* a process of an earlier attempt ends (by itself or by a SIGTERM)
StragglerExit(s) ==
  /\ pc # "exit"
  /\ s \in stragglers
  /\ stragglers' = stragglers \ {s}
  /\ UNCHANGED <<confv, wrapv, guardv, teev, timev, joint, orchv, pst, rc, term, sigv, filev, histv>>


\* ------------------------------------------ run_session: reader and timer
\* a reader that leaves readiness to the fallback timer
NeverDetects(line, isSet) == FALSE

\* if (not ready_event.is_set()) and any(r.search(line) for r in ready_regexes)
DetectsReady(line, isSet) == line = "armed" /\ ~isSet

\* _tee_and_detect: readline returns a line the receiver wrote (while it
\* was alive); the line is matched, then the process is polled: once it has
\* ended the rest of its output is drained unmatched and the thread returns
ReaderLine(r, line) ==
  /\ Session /\ pc # "exit"
  /\ reader[r] = "running"
  /\ ready' = [ready EXCEPT
       ![r] = IF DetectsReady(line, ready[r]) THEN EventSet(ready[r]) ELSE @]
  /\ matched' = [matched EXCEPT ![r] = @ \/ line = "armed"]
  /\ reader' = [reader EXCEPT ![r] = IF pst[r] = "live" THEN @ ELSE "done"]
  /\ UNCHANGED <<confv, wrapv, guardv, teev, timev, joint, orchv, procv, timer, filev, histv>>

\* _tee_and_detect: readline returns b"" at end of file, the process has
\* ended: the thread returns
ReaderEof(r) ==
  /\ Session /\ pc # "exit"
  /\ reader[r] = "running" /\ pst[r] # "live"
  /\ reader' = [reader EXCEPT ![r] = "done"]
  /\ UNCHANGED <<confv, wrapv, guardv, teev, timev, joint, orchv, procv, ready, timer, matched, filev, histv>>

\* Timer(ready_timeout_s, lambda: ready_event.set())
TimerFire(r) ==
  /\ Session /\ pc # "exit"
  /\ timer[r] = "armed"
  /\ timer' = [timer EXCEPT ![r] = "fired"]
  /\ ready' = [ready EXCEPT ![r] = EventSet(ready[r])]
  /\ UNCHANGED <<confv, wrapv, guardv, teev, timev, joint, orchv, procv, reader, matched, filev, histv>>

\* --------------------------------------------------------- both controllers
\* the checks made before the run loop; run_session then installs its
\* interrupt handler
Preflight(cfgOk) ==
  /\ pc = "start"
  /\ IF cfgOk
       THEN /\ pc' = "runloop"
            /\ UNCHANGED <<exitStatus, exitCause>>
       ELSE /\ pc' = "exit"
            /\ exitStatus' = ExitAborted
            /\ exitCause' = "config"
  /\ UNCHANGED <<confv, wrapv, guardv, teev, timev, joint, run, attempt, ok, ret, result, procv, sigv, filev, histv>>

\* the run loop is over: the session is reported done (and archived)
Done ==
  /\ pc = "runloop"
  /\ run >= cfg.runs
  /\ pc' = "exit"
  /\ exitStatus' = 0
  /\ exitCause' = "done"
  /\ UNCHANGED <<confv, wrapv, guardv, teev, timev, joint, run, attempt, ok, ret, result, procv, sigv, filev, histv>>

\* ---------------------------------------------------------- run_collection
Raise ==
  /\ pc' = "except"
  /\ result' = "Failed"

\* for i in range(1, cfg.runs + 1): the run directory and its file names
C_BeginRun ==
  /\ Collector /\ pc = "runloop"
  /\ run < cfg.runs
  /\ run' = run + 1
  /\ attempt' = 0
  /\ nAttempts' = 0 /\ nFailed' = 0 /\ nSleeps' = 0
  /\ canon' = NoFiles
  /\ tryIq' = [k \in Attempts |-> NoFiles]
  /\ tryLog' = [k \in Attempts |-> NoLogs]
  /\ succ' = 0
  /\ pc' = "attemptloop"
  /\ UNCHANGED <<confv, wrapv, guardv, teev, timev, joint, ok, ret, result, exitStatus, exitCause, procv, sigv,
                 latest, exhausted, diedUnready>>

\* a removal that empties the files of every attempt of the run
UnlinkedAll(tries, k, none) == [j \in DOMAIN tries |-> none]

\* for p in (rx1_iq_try, rx2_iq_try, rx1_log, rx2_log, tx_log): p.unlink()
\* with the names of attempt k
Unlinked(tries, k, none) == [tries EXCEPT ![k] = none]

\* for attempt in range(1, max_retries + 1): remove this attempt's stale
\* files, start rx1 and rx2 with their attempt logs
C_BeginAttempt ==
  /\ Collector /\ pc = "attemptloop"
  /\ attempt < cfg.max_retries
  /\ attempt' = attempt + 1
  /\ nAttempts' = nAttempts + 1
  /\ tryIq' = Unlinked(tryIq, attempt + 1, NoFiles)
  /\ tryLog' = [Unlinked(tryLog, attempt + 1, NoLogs)
                  EXCEPT ![attempt + 1] = [p \in PROCS |-> p \in RX]]
  /\ stragglers' = stragglers \cup Leftover
  /\ pst' = [p \in PROCS |-> IF p \in RX THEN "live" ELSE "none"]
  /\ rc' = [p \in PROCS |-> 0]
  /\ term' = [p \in PROCS |-> FALSE]
  /\ ready' = [r \in RX |-> FALSE]
  /\ ok' = [r \in RX |-> FALSE]
  /\ diedUnready' = [r \in RX |-> FALSE]
  /\ result' = "none"
  /\ joint' = IF cfg.hw_trigger THEN "running" ELSE "none"
  /\ pc' = IF cfg.hw_trigger THEN "wait1" ELSE "sleep"
  /\ UNCHANGED <<confv, wrapv, guardv, teev, timev, run, ret, exitStatus, exitCause, timer, reader,
                 matched, canon, latest, nFailed, nSleeps, succ, exhausted>>

\* the attempt loop ends without a break
C_LoopEnd ==
  /\ Collector /\ pc = "attemptloop"
  /\ ~(attempt < cfg.max_retries)
  /\ pc' = "postrun"
  /\ UNCHANGED <<confv, wrapv, guardv, teev, timev, joint, run, attempt, ok, ret, result, exitStatus, exitCause,
                 procv, sigv, filev, histv>>

\* ok1 = _wait_for_log_text(rx1_log, ...): True once the log holds a needle,
\* False when the timeout passes without one (tx_wait_timeout_s since the
\* start of the readiness wait)
C_WaitLog1 ==
  /\ Collector /\ pc = "wait1"
  /\ ok' = [ok EXCEPT !["rx1"] = ready["rx1"]]
  /\ joint' = IF ready["rx1"] THEN joint ELSE "missed"
  /\ pc' = "wait2"
  /\ UNCHANGED <<confv, wrapv, guardv, teev, timev, run, attempt, ret, result, exitStatus, exitCause,
                 procv, sigv, filev, histv>>

\* tx_wait_timeout_s has passed since the start of the readiness wait while
\* the second _wait_for_log_text, which has its own deadline, is running
JointElapses ==
  /\ Collector /\ pc = "wait2" /\ joint = "running"
  /\ joint' = IF AllReady(ready, cfg.enabled) THEN "met" ELSE "missed"
  /\ UNCHANGED <<confv, wrapv, guardv, teev, timev, orchv, procv, sigv, filev, histv>>

\* ok2 = _wait_for_log_text(rx2_log, ...); if not (ok1 and ok2): raise
C_WaitLog2 ==
  /\ Collector /\ pc = "wait2"
  /\ ok' = [ok EXCEPT !["rx2"] = ready["rx2"]]
  /\ joint' = IF ~ready["rx2"] /\ joint = "running" THEN "missed" ELSE joint
  /\ IF AllReady(ok', cfg.enabled)
       THEN pc' = "tx" /\ UNCHANGED result
       ELSE Raise
  /\ UNCHANGED <<confv, wrapv, guardv, teev, timev, run, attempt, ret, exitStatus, exitCause,
                 procv, sigv, filev, histv>>

\* time.sleep(cfg.rx_ready_timeout_s): without the hardware trigger the
\* elapsed fallback time is the readiness of both receivers
C_Sleep ==
  /\ Collector /\ pc = "sleep"
  /\ ready' = [r \in RX |-> EventSet(ready[r])]
  /\ pc' = "tx"
  /\ UNCHANGED <<confv, wrapv, guardv, teev, timev, joint, run, attempt, ok, ret, result, exitStatus, exitCause,
                 procv, timer, reader, matched, filev, histv>>

\* a test that ignores the returncode (a faulty check, for comparison)
TxExited(st, code) == st = "exited"

\* tx.wait(timeout=...) returned and `tx.returncode != 0` is false
TxOk(st, code) == st = "exited" /\ code = 0

\* tx = _popen_to_files(tx_cmd, tx_log)
C_LaunchTx ==
  /\ Collector /\ pc = "tx"
  /\ pst' = [pst EXCEPT !["tx"] = "live"]
  /\ tryLog' = [tryLog EXCEPT ![attempt]["tx"] = TRUE]
  /\ pc' = "txwait"
  /\ UNCHANGED <<confv, wrapv, guardv, teev, timev, joint, run, attempt, ok, ret, result, exitStatus, exitCause,
                 rc, term, stragglers, sigv, canon, tryIq, latest, histv>>

\* tx.wait(timeout=...); a timeout raises, a non-zero returncode raises
C_TxWait ==
  /\ Collector /\ pc = "txwait"
  /\ IF TxOk(pst["tx"], rc["tx"])
       THEN pc' = "rxwait1" /\ UNCHANGED result
       ELSE Raise
  /\ UNCHANGED <<confv, wrapv, guardv, teev, timev, joint, run, attempt, ok, ret, exitStatus, exitCause,
                 procv, sigv, filev, histv>>

\* rx1.wait(timeout=rx_deadline)
C_RxWait1 ==
  /\ Collector /\ pc = "rxwait1"
  /\ IF pst["rx1"] = "exited"
       THEN pc' = "rxwait2" /\ UNCHANGED result
       ELSE Raise
  /\ UNCHANGED <<confv, wrapv, guardv, teev, timev, joint, run, attempt, ok, ret, exitStatus, exitCause,
                 procv, sigv, filev, histv>>

\* rx2.wait(timeout=rx_deadline), then the two returncode checks
C_RxWait2 ==
  /\ Collector /\ pc = "rxwait2"
  /\ IF pst["rx2"] = "exited" /\ rc["rx1"] = 0 /\ rc["rx2"] = 0
       THEN pc' = "promote" /\ UNCHANGED result
       ELSE Raise
  /\ UNCHANGED <<confv, wrapv, guardv, teev, timev, joint, run, attempt, ok, ret, exitStatus, exitCause,
                 procv, sigv, filev, histv>>

\* the canonical files after the promotion step: both are unlinked, then
\* rx1_iq_try.replace(rx1_iq_final), then rx2_iq_try.replace(rx2_iq_final);
\* a replace that raises ends the step there
PromotedCanon(try) ==
  [r \in RX |->
     IF r = "rx1"
       THEN (IF ReplaceRaises(try["rx1"]) THEN NoFile ELSE try["rx1"])
       ELSE (IF ReplaceRaises(try["rx1"]) \/ ReplaceRaises(try["rx2"])
               THEN NoFile ELSE try["rx2"])]

PromotedTry(try) ==
  [r \in RX |->
     IF r = "rx1"
       THEN (IF ReplaceRaises(try["rx1"]) THEN try["rx1"] ELSE NoFile)
       ELSE (IF ReplaceRaises(try["rx1"]) \/ ReplaceRaises(try["rx2"])
               THEN try["rx2"] ELSE NoFile)]

PromotionRaises(try) == ReplaceRaises(try["rx1"]) \/ ReplaceRaises(try["rx2"])

\* promote the logs and the IQ files, then break
C_Promote ==
  /\ Collector /\ pc = "promote"
  /\ canon' = PromotedCanon(tryIq[attempt])
  /\ tryIq' = [tryIq EXCEPT ![attempt] = PromotedTry(tryIq[attempt])]
  /\ IF PromotionRaises(tryIq[attempt])
       THEN Raise /\ UNCHANGED succ
       ELSE /\ pc' = "postrun"
            /\ result' = "Succeeded"
            /\ succ' = attempt
  /\ UNCHANGED <<confv, wrapv, guardv, teev, timev, joint, run, attempt, ok, ret, exitStatus, exitCause,
                 procv, sigv, tryLog, latest,
                 nAttempts, nFailed, nSleeps, exhausted, diedUnready>>

\* except Exception: _terminate rx1, rx2, tx; then back off and retry, or
\* raise SystemExit(1)
C_HandleFailure(how) ==
  /\ Collector /\ pc = "except"
  /\ pst' = [p \in PROCS |-> Terminated(pst[p], how[p])]
  /\ rc' = [p \in PROCS |-> TerminatedRc(pst[p], how[p], rc[p])]
  /\ nFailed' = nFailed + 1
  /\ IF HasRetryLeft(attempt, cfg.max_retries)
       THEN /\ nSleeps' = nSleeps + 1
            /\ pc' = "attemptloop"
            /\ UNCHANGED <<exitStatus, exitCause, exhausted>>
       ELSE /\ pc' = "exit"
            /\ exitStatus' = ExitAborted
            /\ exitCause' = "aborted"
            /\ exhausted' = IF exhausted = 0 THEN run ELSE exhausted
            /\ UNCHANGED nSleeps
  /\ UNCHANGED <<confv, wrapv, guardv, teev, timev, joint, run, attempt, ok, ret, result, term, stragglers,
                 sigv, filev, nAttempts, succ, diedUnready>>

\* the sizes, the Latest folder (if i == 1), the empty-file warning
C_PostRun ==
  /\ Collector /\ pc = "postrun"
  /\ latest' = IF run = 1 THEN run ELSE latest
  /\ pc' = "runloop"
  /\ UNCHANGED <<confv, wrapv, guardv, teev, timev, joint, run, attempt, ok, ret, result, exitStatus, exitCause,
                 procv, sigv, canon, tryIq, tryLog, histv>>


\* ------------------------------------------- run_session and run_capture
\* run_capture returns v: 0 is the only value that reports success
Return(v) ==
  /\ ret' = v
  /\ result' = IF v = 0 THEN "Succeeded" ELSE "Failed"
  /\ nFailed' = IF v = 0 THEN nFailed ELSE nFailed + 1
  /\ succ' = IF v = 0 THEN 1 ELSE succ
  /\ exhausted' = IF v # 0 /\ exhausted = 0 THEN run ELSE exhausted
  /\ pc' = "post"

\* for i in range(1, cfg.runs + 1): the run directory, then the pre-run
\* guard wait_hackrf_free(serial, 0.5) per serial, whose result is not used
S_BeginRun ==
  /\ Session /\ pc = "runloop"
  /\ run < cfg.runs
  /\ run' = run + 1
  /\ nAttempts' = 0 /\ nFailed' = 0 /\ nSleeps' = 0
  /\ succ' = 0
  /\ pc' = "launch"
  /\ UNCHANGED <<confv, wrapv, guardv, teev, timev, joint, attempt, ok, ret, result, exitStatus, exitCause, procv,
                 sigv, filev, exhausted, diedUnready>>

\* _start_if_enabled(rx1); _start_if_enabled(rx2): the process, a new Event,
\* the reader thread and the fallback Timer of each enabled receiver
S_LaunchRx ==
  /\ Session /\ pc = "launch"
  /\ cfg.enabled # {}
  /\ stragglers' = stragglers \cup Leftover
  /\ pst' = [p \in PROCS |-> IF p \in cfg.enabled THEN "live" ELSE "none"]
  /\ rc' = [p \in PROCS |-> 0]
  /\ term' = [p \in PROCS |-> FALSE]
  /\ ready' = [r \in RX |-> FALSE]
  /\ timer' = [r \in RX |-> IF r \in cfg.enabled THEN "armed" ELSE "idle"]
  /\ reader' = [r \in RX |-> IF r \in cfg.enabled THEN "running" ELSE "idle"]
  /\ matched' = [r \in RX |-> FALSE]
  /\ diedUnready' = [r \in RX |-> FALSE]
  /\ nAttempts' = nAttempts + 1
  /\ ret' = 0
  /\ result' = "none"
  /\ joint' = "running"
  /\ pc' = "ready"
  /\ UNCHANGED <<confv, wrapv, guardv, teev, timev, run, attempt, ok, exitStatus, exitCause,
                 filev, nFailed, nSleeps, succ, exhausted>>

\* if not ready_events: return 2
S_NoReceivers ==
  /\ Session /\ pc = "launch"
  /\ cfg.enabled = {}
  /\ Return(RetNoReceivers)
  /\ UNCHANGED <<confv, wrapv, guardv, teev, timev, joint, run, attempt, ok, exitStatus, exitCause, procv, sigv,
                 filev, nAttempts, nSleeps, diedUnready>>

\* the polling loop: if all(ev.is_set() ...): break
S_ReadyAll ==
  /\ Session /\ pc = "ready"
  /\ AllReady(ready, cfg.enabled)
  /\ pc' = "tx"
  /\ UNCHANGED <<confv, wrapv, guardv, teev, timev, joint, run, attempt, ok, ret, result, exitStatus, exitCause,
                 procv, sigv, filev, histv>>

\* the receiver whose poll() is not None while its event is unset
DiedBeforeReady == \E r \in cfg.enabled : Dead(pst[r]) /\ ~ready[r]

\* the polling loop: a receiver exited before READY: return 3
S_DiedBeforeReady ==
  /\ Session /\ pc = "ready"
  /\ ~AllReady(ready, cfg.enabled)
  /\ DiedBeforeReady
  /\ Return(RetDiedBeforeReady)
  /\ UNCHANGED <<confv, wrapv, guardv, teev, timev, joint, run, attempt, ok, exitStatus, exitCause, procv, sigv,
                 filev, nAttempts, nSleeps, diedUnready>>

\* the polling loop: tx_wait_timeout_s has passed: return 4
S_ReadyTimeout ==
  /\ Session /\ pc = "ready"
  /\ ~AllReady(ready, cfg.enabled)
  /\ ~DiedBeforeReady
  /\ Return(RetReadyTimeout)
  /\ joint' = "missed"
  /\ UNCHANGED <<confv, wrapv, guardv, teev, timev, run, attempt, ok, exitStatus, exitCause, procv, sigv,
                 filev, nAttempts, nSleeps, diedUnready>>

\* _run_tx: subprocess.run starts the transmitter
S_RunTx ==
  /\ Session /\ pc = "tx"
  /\ pst' = [pst EXCEPT !["tx"] = "live"]
  /\ pc' = "txwait"
  /\ UNCHANGED <<confv, wrapv, guardv, teev, timev, joint, run, attempt, ok, ret, result, exitStatus, exitCause,
                 rc, term, stragglers, sigv, filev, histv>>

\* _run_tx: subprocess.run returns once the transmitter has exited
S_TxDone ==
  /\ Session /\ pc = "txwait"
  /\ pst["tx"] = "exited"
  /\ pc' = "harvest1"
  /\ UNCHANGED <<confv, wrapv, guardv, teev, timev, joint, run, attempt, ok, ret, result, exitStatus, exitCause,
                 procv, sigv, filev, histv>>

\* for rx, proc in procs: proc.wait(timeout=remaining); on TimeoutExpired
\* terminate, wait 2 s, kill
S_Harvest(r, how) ==
  /\ Session
  /\ pc = (IF r = "rx1" THEN "harvest1" ELSE "harvest2")
  /\ IF r \in cfg.enabled
       THEN /\ pst' = [pst EXCEPT ![r] = Terminated(pst[r], how)]
            /\ rc' = [rc EXCEPT ![r] = TerminatedRc(pst[r], how, rc[r])]
       ELSE UNCHANGED <<pst, rc>>
  /\ pc' = (IF r = "rx1" THEN "harvest2" ELSE "finish")
  /\ UNCHANGED <<confv, wrapv, guardv, teev, timev, joint, run, attempt, ok, ret, result, exitStatus, exitCause,
                 term, stragglers, sigv, filev, histv>>

\* a capture that reports success whatever the transmitter did
RcIgnoresTx(tx_rc) == 0

\* return 0 if tx_rc == 0 else tx_rc
CaptureRc(tx_rc) == IF tx_rc = 0 THEN 0 ELSE tx_rc

\* timer.cancel() for every timer; return 0 if tx_rc == 0 else tx_rc
S_Finish ==
  /\ Session /\ pc = "finish"
  /\ timer' = [r \in RX |-> IF timer[r] = "armed" THEN "cancelled" ELSE timer[r]]
  /\ Return(CaptureRc(rc["tx"]))
  /\ UNCHANGED <<confv, wrapv, guardv, teev, timev, joint, run, attempt, ok, exitStatus, exitCause, procv,
                 ready, reader, matched, filev, nAttempts, nSleeps, diedUnready>>

\* the serials whose post-run wait_hackrf_free(serial, 0.8) is False: a
\* process matching the serial is alive at every poll
BusySerials ==
  {SerialOf(p) : p \in {q \in PROCS : SerialOf(q) # <<>> /\
       (pst[q] = "live" \/ q \in stragglers)}}

\* the post-run guard (cleanup_hackrf_all of each busy serial: pkill sends
\* SIGTERM and returns), the report
S_PostRun ==
  /\ Session /\ pc = "post"
  /\ term' = [p \in PROCS |->
                term[p] \/ (pst[p] = "live" /\ Signalled(BusySerials, p))]
  /\ pc' = "runloop"
  /\ UNCHANGED <<confv, wrapv, guardv, teev, timev, joint, run, attempt, ok, ret, result, exitStatus, exitCause,
                 pst, rc, stragglers, sigv, filev, histv>>

\* ---------------------------------------------------------------- interrupt
ConfiguredSerials == {SerialOf(p) : p \in PROCS}

\* SIGINT or SIGTERM reaches the controller. run_collection installs no
\* handler. run_session's _handle_interrupt (installed after the preflight)
\* runs cleanup_hackrf_all(serials) and raises SystemExit(130); the exception
\* leaving subprocess.run kills the transmitter it waits for.
Interrupt ==
  /\ pc # "exit"
  /\ IF Session /\ pc # "start"
       THEN /\ term' = [p \in PROCS |->
                 term[p] \/ (pst[p] = "live" /\ Signalled(ConfiguredSerials, p))]
            /\ pst' = [pst EXCEPT !["tx"] =
                 IF pc = "txwait" THEN Terminated(@, "killed") ELSE @]
       ELSE UNCHANGED <<pst, term>>
  /\ pc' = "exit"
  /\ exitStatus' = ExitInterrupt
  /\ exitCause' = "interrupt"
  /\ UNCHANGED <<confv, wrapv, guardv, teev, timev, joint, run, attempt, ok, ret, result, rc, stragglers, sigv,
                 filev, histv>>

\* --------------------------------------------------------------------- Next
Hows == [PROCS -> {"exited", "killed"}]

Next ==
  \/ \E r \in RX : RxWriteToLog(r)
  \/ \E p \in PROCS, code \in {0, 1}, wrote \in BOOLEAN : ProcExit(p, code, wrote)
  \/ \E p \in PROCS : ProcTermExit(p)
  \/ \E s \in stragglers : StragglerExit(s)
  \/ \E r \in RX, line \in Lines : ReaderLine(r, line)
  \/ \E r \in RX : ReaderEof(r)
  \/ \E r \in RX : TimerFire(r)
  \/ \E cfgOk \in BOOLEAN : Preflight(cfgOk)
  \/ Done
  \/ C_BeginRun
  \/ C_BeginAttempt
  \/ C_LoopEnd
  \/ C_WaitLog1
  \/ JointElapses
  \/ C_WaitLog2
  \/ C_Sleep
  \/ C_LaunchTx
  \/ C_TxWait
  \/ C_RxWait1
  \/ C_RxWait2
  \/ C_Promote
  \/ \E how \in Hows : C_HandleFailure(how)
  \/ C_PostRun
  \/ S_BeginRun
  \/ S_LaunchRx
  \/ S_NoReceivers
  \/ S_ReadyAll
  \/ S_DiedBeforeReady
  \/ S_ReadyTimeout
  \/ S_RunTx
  \/ S_TxDone
  \/ \E r \in RX, how \in {"exited", "killed"} : S_Harvest(r, how)
  \/ S_Finish
  \/ S_PostRun

\* a session that no signal interrupts
Spec == Init /\ [][Next]_vars

\* a session that SIGINT or SIGTERM may interrupt at any point
NextInterrupt == Next \/ Interrupt
SpecInterrupt == Init /\ [][NextInterrupt]_vars

\* ------------- tx/controller_lib.py run_capture with rx/capture_ready.py
\* One capture of the controller whose receivers are wrapper processes
\* (run_capture_with_ready_handshake): each wrapper runs hackrf_transfer as
\* its child and prints READY; the controller's reader threads set the
\* events on an exact READY line. The controller has no fallback timer.
Handshake == impl = "run_capture"

\* fallback_first: rx_ready_timeout is shorter than tx_wait_timeout
HandshakeConfigs ==
  [runs : {1}, max_retries : {1}, hw_trigger : {TRUE}, enabled : {RX},
   serials : {TRUE}, fallback_first : BOOLEAN]

InitHandshake ==
  /\ impl = "run_capture"
  /\ cfg \in HandshakeConfigs
  /\ pc = "start" /\ run = 1 /\ attempt = 0
  /\ ok = [r \in RX |-> FALSE]
  /\ ret = 0 /\ result = "none" /\ exitStatus = 0 /\ exitCause = "none"
  /\ pst = [p \in PROCS |-> "none"]
  /\ rc = [p \in PROCS |-> 0]
  /\ term = [p \in PROCS |-> FALSE]
  /\ stragglers = {}
  /\ ready = [r \in RX |-> FALSE]
  /\ timer = [r \in RX |-> "idle"]
  /\ reader = [r \in RX |-> "idle"]
  /\ matched = [r \in RX |-> FALSE]
  /\ canon = NoFiles
  /\ tryIq = [k \in Attempts |-> NoFiles]
  /\ tryLog = [k \in Attempts |-> NoLogs]
  /\ latest = 0
  /\ nAttempts = 0 /\ nFailed = 0 /\ nSleeps = 0 /\ succ = 0 /\ exhausted = 0
  /\ diedUnready = [r \in RX |-> FALSE]
  /\ WrapIdle
  /\ GuardIdle
  /\ TeeIdle
  /\ TimeIdle
  /\ joint = "none"

\* what this controller and its wrappers never change
idlev == <<confv, guardv, teev, timev, joint, run, attempt, ok, term, stragglers, timer, filev, nSleeps,
           diedUnready>>

\* a wrapper that prints READY and does not remember it
PrintForgets(r) ==
  /\ readyOut' = [readyOut EXCEPT ![r] = @ + 1]
  /\ UNCHANGED readySent

\* print("READY", flush=True); ready_sent = True
PrintReady(r) ==
  /\ readyOut' = [readyOut EXCEPT ![r] = @ + 1]
  /\ readySent' = [readySent EXCEPT ![r] = TRUE]

\* line = p.stdout.readline() returns a line of the child (the call blocks
\* while the child is alive and writes nothing); a matching line prints READY
W_ReadLine(r, line) ==
  /\ Handshake /\ wpc[r] = "readline" /\ pst[r] = "live"
  /\ emitted' = [emitted EXCEPT ![r] = TRUE]
  /\ IF ~readySent[r] /\ line = "armed"
       THEN PrintReady(r)
       ELSE UNCHANGED <<readySent, readyOut>>
  /\ wpc' = [wpc EXCEPT ![r] = "poll"]
  /\ UNCHANGED <<idlev, orchv, pst, rc, ready, reader, matched, nAttempts,
                 nFailed, succ, exhausted, child, elapsed>>

\* readline returns "" at end of file: the child has exited
W_ReadEof(r) ==
  /\ Handshake /\ wpc[r] = "readline" /\ pst[r] = "live"
  /\ child[r] \in {"exit0", "exit1"}
  /\ wpc' = [wpc EXCEPT ![r] = "poll"]
  /\ UNCHANGED <<idlev, orchv, pst, rc, ready, reader, matched, nAttempts,
                 nFailed, succ, exhausted, child, readySent, elapsed, emitted,
                 readyOut>>

\* rc = p.poll(); if rc is not None: return rc
W_Poll(r) ==
  /\ Handshake /\ wpc[r] = "poll" /\ pst[r] = "live"
  /\ IF child[r] \in {"exit0", "exit1"}
       THEN /\ pst' = [pst EXCEPT ![r] = "exited"]
            /\ rc' = [rc EXCEPT ![r] = IF child[r] = "exit0" THEN 0 ELSE 1]
            /\ wpc' = [wpc EXCEPT ![r] = "returned"]
       ELSE /\ wpc' = [wpc EXCEPT ![r] = "deadline"]
            /\ UNCHANGED <<pst, rc>>
  /\ UNCHANGED <<idlev, orchv, ready, reader, matched, nAttempts, nFailed,
                 succ, exhausted, child, readySent, elapsed, emitted, readyOut>>

\* if (not ready_sent) and (time.monotonic() - start_t >= ready_timeout_s)
W_Deadline(r) ==
  /\ Handshake /\ wpc[r] = "deadline" /\ pst[r] = "live"
  /\ IF ~readySent[r] /\ elapsed[r]
       THEN PrintReady(r)
       ELSE UNCHANGED <<readySent, readyOut>>
  /\ wpc' = [wpc EXCEPT ![r] = "readline"]
  /\ UNCHANGED <<idlev, orchv, pst, rc, ready, reader, matched, nAttempts,
                 nFailed, succ, exhausted, child, elapsed, emitted>>

\* ready_timeout_s passes since the wrapper's start_t
FallbackElapses(r) ==
  /\ Handshake /\ wpc[r] # "none" /\ ~elapsed[r]
  /\ elapsed' = [elapsed EXCEPT ![r] = TRUE]
  /\ UNCHANGED <<idlev, orchv, pst, rc, ready, reader, matched, nAttempts,
                 nFailed, succ, exhausted, child, wpc, readySent, emitted,
                 readyOut>>

\* the wrapper's hackrf_transfer exits
ChildExit(r, code) ==
  /\ Handshake /\ child[r] = "live"
  /\ child' = [child EXCEPT ![r] = IF code = 0 THEN "exit0" ELSE "exit1"]
  /\ UNCHANGED <<idlev, orchv, pst, rc, ready, reader, matched, nAttempts,
                 nFailed, succ, exhausted, wpc, readySent, elapsed, emitted,
                 readyOut>>

\* _tee_and_detect_ready reads the wrapper's READY line: ready_event.set();
\* once the wrapper has ended the rest is drained and the thread returns
H_ReaderReady(r) ==
  /\ Handshake /\ reader[r] = "running"
  /\ readyOut[r] > 0 /\ ~matched[r]
  /\ ready' = [ready EXCEPT ![r] = EventSet(ready[r])]
  /\ matched' = [matched EXCEPT ![r] = TRUE]
  /\ reader' = [reader EXCEPT ![r] = IF pst[r] = "live" THEN @ ELSE "done"]
  /\ UNCHANGED <<idlev, orchv, pst, rc, nAttempts, nFailed, succ, exhausted,
                 wrapv>>

\* _tee_and_detect_ready: proc.poll() is not None: drain and return
H_ReaderDrain(r) ==
  /\ Handshake /\ reader[r] = "running" /\ pst[r] # "live"
  /\ reader' = [reader EXCEPT ![r] = "done"]
  /\ UNCHANGED <<idlev, orchv, pst, rc, ready, matched, nAttempts, nFailed,
                 succ, exhausted, wrapv>>

\* the transmitter exits
H_TxExit(code) ==
  /\ Handshake /\ pst["tx"] = "live"
  /\ pst' = [pst EXCEPT !["tx"] = "exited"]
  /\ rc' = [rc EXCEPT !["tx"] = code]
  /\ UNCHANGED <<idlev, orchv, ready, reader, matched, nAttempts, nFailed,
                 succ, exhausted, wrapv>>

\* require_tool raises: return 1
H_ToolMissing ==
  /\ Handshake /\ pc = "start"
  /\ Return(LibToolMissing)
  /\ UNCHANGED <<idlev, run, exitStatus, exitCause, pst, rc, ready, reader,
                 matched, nAttempts, wrapv>>

\* for rx in (rx1, rx2): start_local_rx: the wrapper process, its Event and
\* its reader thread; the wrapper starts its child and enters its loop
H_StartRx ==
  /\ Handshake /\ pc = "start"
  /\ pst' = [p \in PROCS |-> IF p \in RX THEN "live" ELSE "none"]
  /\ reader' = [r \in RX |-> "running"]
  /\ child' = [r \in RX |-> "live"]
  /\ wpc' = [r \in RX |-> "readline"]
  /\ nAttempts' = nAttempts + 1
  /\ pc' = "ready"
  /\ UNCHANGED <<idlev, ret, result, exitStatus, exitCause, rc, ready, matched,
                 nFailed, succ, exhausted, readySent, elapsed, emitted, readyOut>>

\* if all(ev.is_set() for _, ev in ready_events): break
H_ReadyAll ==
  /\ Handshake /\ pc = "ready"
  /\ AllReady(ready, RX)
  /\ pc' = "tx"
  /\ UNCHANGED <<idlev, ret, result, exitStatus, exitCause, pst, rc, ready,
                 reader, matched, nAttempts, nFailed, succ, exhausted, wrapv>>

\* a wrapper exited before READY: return 2
H_DiedBeforeReady ==
  /\ Handshake /\ pc = "ready"
  /\ ~AllReady(ready, RX)
  /\ \E r \in RX : Dead(pst[r]) /\ ~ready[r]
  /\ Return(LibDiedBeforeReady)
  /\ UNCHANGED <<idlev, exitStatus, exitCause, pst, rc, ready, reader,
                 matched, nAttempts, wrapv>>

\* time.monotonic() - t0 > tx_wait_timeout: return 3
H_ReadyTimeout ==
  /\ Handshake /\ pc = "ready"
  /\ ~AllReady(ready, RX)
  /\ ~\E r \in RX : Dead(pst[r]) /\ ~ready[r]
  /\ cfg.fallback_first => \A r \in RX : elapsed[r]
  /\ Return(LibReadyTimeout)
  /\ UNCHANGED <<idlev, exitStatus, exitCause, pst, rc, ready, reader,
                 matched, nAttempts, wrapv>>

\* run_local_tx: subprocess.run starts the transmitter
H_RunTx ==
  /\ Handshake /\ pc = "tx"
  /\ pst' = [pst EXCEPT !["tx"] = "live"]
  /\ pc' = "txwait"
  /\ UNCHANGED <<idlev, ret, result, exitStatus, exitCause, rc, ready, reader,
                 matched, nAttempts, nFailed, succ, exhausted, wrapv>>

\* run_local_tx: subprocess.run returns once the transmitter has exited
H_TxDone ==
  /\ Handshake /\ pc = "txwait"
  /\ pst["tx"] = "exited"
  /\ pc' = "harvest1"
  /\ UNCHANGED <<idlev, ret, result, exitStatus, exitCause, pst, rc, ready,
                 reader, matched, nAttempts, nFailed, succ, exhausted, wrapv>>

\* for rx, proc in procs: proc.wait(timeout=remaining); on TimeoutExpired
\* terminate, wait 2 s, kill (the wrapper; its child is not signalled)
H_Harvest(r, how) ==
  /\ Handshake
  /\ pc = (IF r = "rx1" THEN "harvest1" ELSE "harvest2")
  /\ pst' = [pst EXCEPT ![r] = Terminated(pst[r], how)]
  /\ rc' = [rc EXCEPT ![r] = TerminatedRc(pst[r], how, rc[r])]
  /\ wpc' = [wpc EXCEPT ![r] = "returned"]
  /\ pc' = (IF r = "rx1" THEN "harvest2" ELSE "finish")
  /\ UNCHANGED <<idlev, ret, result, exitStatus, exitCause, ready, reader,
                 matched, nAttempts, nFailed, succ, exhausted, child, readySent,
                 elapsed, emitted, readyOut>>

\* return 0 if tx_rc == 0 else tx_rc
H_Finish ==
  /\ Handshake /\ pc = "finish"
  /\ Return(rc["tx"])
  /\ UNCHANGED <<idlev, exitStatus, exitCause, pst, rc, ready, reader,
                 matched, nAttempts, wrapv>>

\* main returns run_capture's value: the controller's exit status
H_Exit ==
  /\ Handshake /\ pc = "post"
  /\ pc' = "exit"
  /\ exitStatus' = ret
  /\ exitCause' = IF ret = 0 THEN "done" ELSE "aborted"
  /\ UNCHANGED <<idlev, ret, result, pst, rc, ready, reader, matched,
                 nAttempts, nFailed, succ, exhausted, wrapv>>

NextHandshake ==
  \/ \E r \in RX, line \in Lines : W_ReadLine(r, line)
  \/ \E r \in RX : W_ReadEof(r)
  \/ \E r \in RX : W_Poll(r)
  \/ \E r \in RX : W_Deadline(r)
  \/ \E r \in RX : FallbackElapses(r)
  \/ \E r \in RX, code \in {0, 1} : ChildExit(r, code)
  \/ \E r \in RX : H_ReaderReady(r)
  \/ \E r \in RX : H_ReaderDrain(r)
  \/ \E code \in {0, 1} : H_TxExit(code)
  \/ H_ToolMissing
  \/ H_StartRx
  \/ H_ReadyAll
  \/ H_DiedBeforeReady
  \/ H_ReadyTimeout
  \/ H_RunTx
  \/ H_TxDone
  \/ \E r \in RX, how \in {"exited", "killed"} : H_Harvest(r, how)
  \/ H_Finish
  \/ H_Exit

\* the steps of the controller's main thread
HandshakeController ==
  \/ H_StartRx
  \/ H_ReadyAll
  \/ H_DiedBeforeReady
  \/ H_ReadyTimeout
  \/ H_RunTx
  \/ H_TxDone
  \/ \E r \in RX, how \in {"exited", "killed"} : H_Harvest(r, how)
  \/ H_Finish
  \/ H_Exit

\* the controller, the wrapper's loop and the clock always make their next
\* step; nothing is assumed of hackrf_transfer
HandshakeFairness ==
  /\ WF_vars(HandshakeController)
  /\ \A r \in RX : /\ WF_vars(W_Poll(r))
                    /\ WF_vars(W_Deadline(r))
                    /\ WF_vars(W_ReadEof(r))
                    /\ WF_vars(FallbackElapses(r))

SpecHandshake == InitHandshake /\ [][NextHandshake]_vars /\ HandshakeFairness

\* ------------------------------------- run_session: the busy guard by polls
\* The run loop of run_session with each wait_hackrf_free modelled poll by
\* poll. run_capture is reduced to what it can leave behind: per serial, a
\* hackrf_transfer process that is alive or not. A process found at the
\* start is one that an earlier session left on the serial. pgrep and pkill
\* are installed.
Guarded == impl = "run_session_guard"

GuardConfigs ==
  [runs : 1..MaxRuns, max_retries : {1}, hw_trigger : {FALSE}, enabled : {RX},
   serials : BOOLEAN]

\* rx1, rx2, tx: the order of the checks of both guards
GuardOrder == <<"rx1", "rx2", "tx">>

InitGuard ==
  /\ impl = "run_session_guard"
  /\ cfg \in GuardConfigs
  /\ pc = "runloop" /\ run = 0 /\ attempt = 0
  /\ ok = [r \in RX |-> FALSE]
  /\ ret = 0 /\ result = "none" /\ exitStatus = 0 /\ exitCause = "none"
  /\ pst \in [PROCS -> {"none", "live"}]
  /\ (~cfg.serials => pst = [p \in PROCS |-> "none"])
  /\ rc = [p \in PROCS |-> 0]
  /\ term = [p \in PROCS |-> FALSE]
  /\ stragglers = {}
  /\ ready = [r \in RX |-> FALSE]
  /\ timer = [r \in RX |-> "idle"]
  /\ reader = [r \in RX |-> "idle"]
  /\ matched = [r \in RX |-> FALSE]
  /\ canon = NoFiles
  /\ tryIq = [k \in Attempts |-> NoFiles]
  /\ tryLog = [k \in Attempts |-> NoLogs]
  /\ latest = 0
  /\ nAttempts = 0 /\ nFailed = 0 /\ nSleeps = 0 /\ succ = 0 /\ exhausted = 0
  /\ diedUnready = [r \in RX |-> FALSE]
  /\ WrapIdle
  /\ GuardIdle
  /\ TeeIdle
  /\ TimeIdle
  /\ joint = "none"

\* what the guards and the abstracted run never change
gidlev == <<confv, wrapv, teev, timev, joint, attempt, ok, ret, result, stragglers, sigv, filev,
            histv>>

\* _pgrep_serial(serial): pgrep -fa finds a process whose command line
\* matches the serial
PgrepSerial(serial) ==
  \E q \in PROCS : pst[q] = "live" /\ PgrepMatches(serial, SerialOf(q))

\* a wait that reports every serial free whatever pgrep finds
AlwaysFree(found) == "free"

\* return not _pgrep_serial(serial)
WaitResult(found) == IF found THEN "busy" ELSE "free"

\* the poll is recorded against the wait of slot p
Polled(p, found) ==
  /\ aliveAll' = [aliveAll EXCEPT ![p] = @ /\ found]
  /\ goneAtStart' = [goneAtStart EXCEPT ![p] = IF polls = 0 THEN ~found ELSE @]

\* for i in range(1, cfg.runs + 1): the run directory and the banner
G_BeginRun ==
  /\ Guarded /\ pc = "runloop"
  /\ run < cfg.runs
  /\ run' = run + 1
  /\ pc' = "pre"
  /\ gi' = 1 /\ polls' = 0
  /\ free' = [p \in PROCS |-> "none"]
  /\ aliveAll' = [p \in PROCS |-> TRUE]
  /\ goneAtStart' = [p \in PROCS |-> FALSE]
  /\ preBusy' = {}
  /\ warned' = {}
  /\ UNCHANGED <<gidlev, pst, rc, term, exitStatus, exitCause>>

\* if cfg.rxN_serial: with no serial configured the check is skipped
G_Skip ==
  /\ Guarded /\ pc \in {"pre", "post"}
  /\ gi \in 1..3 /\ SerialOf(GuardOrder[gi]) = <<>>
  /\ gi' = gi + 1
  /\ UNCHANGED <<gidlev, run, pc, pst, rc, term, exitStatus, exitCause, polls, free,
                 aliveAll, goneAtStart, preBusy, warned>>

\* wait_hackrf_free, one pass of its loop: return True when pgrep finds no
\* process, else sleep 0.1 s
G_Poll ==
  /\ Guarded /\ pc \in {"pre", "post"}
  /\ gi \in 1..3 /\ SerialOf(GuardOrder[gi]) # <<>>
  /\ polls < MaxPolls
  /\ LET p == GuardOrder[gi]
         found == PgrepSerial(SerialOf(p))
     IN  /\ Polled(p, found)
         /\ IF found
              THEN /\ polls' = polls + 1
                   /\ UNCHANGED <<gi, free>>
              ELSE /\ free' = [free EXCEPT ![p] = "free"]
                   /\ gi' = gi + 1
                   /\ polls' = 0
  /\ UNCHANGED <<gidlev, run, pc, pst, rc, term, exitStatus, exitCause, preBusy,
                 warned>>

\* wait_hackrf_free once the timeout has passed: return not _pgrep_serial.
\* The pre-run guard drops the value. The post-run guard, on False, prints
\* its [WARN] line and runs cleanup_hackrf_all([serial]): pkill sends
\* SIGTERM to the matching processes and returns.
G_Final ==
  /\ Guarded /\ pc \in {"pre", "post"}
  /\ gi \in 1..3 /\ SerialOf(GuardOrder[gi]) # <<>>
  /\ polls = MaxPolls
  /\ LET p == GuardOrder[gi]
         found == PgrepSerial(SerialOf(p))
         res == WaitResult(found)
     IN  /\ Polled(p, found)
         /\ free' = [free EXCEPT ![p] = res]
         /\ IF pc = "pre"
              THEN /\ preBusy' = IF res = "busy" THEN preBusy \cup {p} ELSE preBusy
                   /\ UNCHANGED <<warned, term>>
              ELSE /\ warned' = IF res = "busy" THEN warned \cup {<<"post", p>>}
                                                ELSE warned
                   /\ term' = [q \in PROCS |->
                                 term[q] \/ (res = "busy" /\ pst[q] = "live"
                                               /\ Signalled({SerialOf(p)}, q))]
                   /\ UNCHANGED preBusy
  /\ gi' = gi + 1
  /\ polls' = 0
  /\ UNCHANGED <<gidlev, run, pc, pst, rc, exitStatus, exitCause>>

\* rc = run_capture(...): the run is started whatever the pre-run guard
\* found. Each serial ends the run with a process alive on it or not (a
\* receiver the run left running, or the earlier process still there); the
\* transmitter of the run itself has ended when subprocess.run returns.
G_RunCapture ==
  /\ Guarded /\ pc = "pre" /\ gi = 4
  /\ \E left \in SUBSET PROCS :
       /\ cfg.serials \/ left = {}
       /\ "tx" \in left => pst["tx"] = "live"
       /\ pst' = [p \in PROCS |-> IF p \in left THEN "live" ELSE "exited"]
       /\ term' = [p \in PROCS |-> term[p] /\ p \in left /\ pst[p] = "live"]
  /\ pc' = "post"
  /\ gi' = 1 /\ polls' = 0
  /\ free' = [p \in PROCS |-> "none"]
  /\ aliveAll' = [p \in PROCS |-> TRUE]
  /\ goneAtStart' = [p \in PROCS |-> FALSE]
  /\ UNCHANGED <<gidlev, run, rc, exitStatus, exitCause, preBusy, warned>>

\* the End / Exit code report, the config snapshot, the Latest mirror
G_EndRun ==
  /\ Guarded /\ pc = "post" /\ gi = 4
  /\ pc' = "runloop"
  /\ gi' = 0
  /\ UNCHANGED <<gidlev, run, pst, rc, term, exitStatus, exitCause, polls, free,
                 aliveAll, goneAtStart, preBusy, warned>>

\* the loop is over: the session returns
G_Exit ==
  /\ Guarded /\ pc = "runloop"
  /\ run = cfg.runs
  /\ pc' = "exit"
  /\ exitCause' = "done"
  /\ UNCHANGED <<gidlev, guardv, run, pst, rc, term, exitStatus>>

NextGuard ==
  \/ G_BeginRun
  \/ G_Skip
  \/ G_Poll
  \/ G_Final
  \/ G_RunCapture
  \/ G_EndRun
  \/ G_Exit
  \/ \E p \in PROCS : ProcExit(p, 0, FALSE)
  \/ \E p \in PROCS : ProcTermExit(p)

SpecGuard == InitGuard /\ [][NextGuard]_vars

\* ---------------------------------------------- the preflight, by defect
\* The checks each controller makes before its first launch, against the
\* ways a configuration can be invalid. After the checks the controller
\* launches its receivers and then its transmitter; what the processes do
\* with an invalid parameter is left open (they run, or exit with a code).
Defects == {"no_pulse", "no_tool", "no_serial", "bad_samples"}

PreflightImpls == {"preflight_run_collection", "preflight_run_session",
                   "preflight_run_capture"}

\* what the preflight of each controller looks for:
\*   run_collection: pulse_path.exists(), _require_tool, _check_hackrfs_present
\*   run_session:    require_tool, preflight_check_serials
\*   run_capture (controller_lib): require_tool
Checked(i) ==
  IF i = "preflight_run_collection" THEN {"no_pulse", "no_tool", "no_serial"}
  ELSE IF i = "preflight_run_session" THEN {"no_tool", "no_serial"}
  ELSE {"no_tool"}

PreflightConfigs ==
  [runs : {1}, max_retries : {1}, hw_trigger : {FALSE}, enabled : {RX},
   serials : {TRUE}, defects : SUBSET Defects]

InitPreflight ==
  /\ impl \in PreflightImpls
  /\ cfg \in PreflightConfigs
  /\ pc = "start" /\ run = 0 /\ attempt = 0
  /\ ok = [r \in RX |-> FALSE]
  /\ ret = 0 /\ result = "none" /\ exitStatus = 0 /\ exitCause = "none"
  /\ pst = [p \in PROCS |-> "none"]
  /\ rc = [p \in PROCS |-> 0]
  /\ term = [p \in PROCS |-> FALSE]
  /\ stragglers = {}
  /\ ready = [r \in RX |-> FALSE]
  /\ timer = [r \in RX |-> "idle"]
  /\ reader = [r \in RX |-> "idle"]
  /\ matched = [r \in RX |-> FALSE]
  /\ canon = NoFiles
  /\ tryIq = [k \in Attempts |-> NoFiles]
  /\ tryLog = [k \in Attempts |-> NoLogs]
  /\ latest = 0
  /\ nAttempts = 0 /\ nFailed = 0 /\ nSleeps = 0 /\ succ = 0 /\ exhausted = 0
  /\ diedUnready = [r \in RX |-> FALSE]
  /\ WrapIdle
  /\ GuardIdle
  /\ TeeIdle
  /\ TimeIdle
  /\ joint = "none"

\* what the preflight and the first launches never change
pidlev == <<confv, wrapv, guardv, teev, timev, joint, run, attempt, ok, ret, result, term,
            stragglers, sigv, filev, histv>>

\* the checks before the run loop: a defect that is looked for ends the
\* controller (SystemExit, RuntimeError, return 1) before any launch
P_Preflight ==
  /\ impl \in PreflightImpls /\ pc = "start"
  /\ IF cfg.defects \cap Checked(impl) # {}
       THEN /\ pc' = "exit"
            /\ exitStatus' = ExitAborted
            /\ exitCause' = "config"
       ELSE /\ pc' = "launch"
            /\ UNCHANGED <<exitStatus, exitCause>>
  /\ UNCHANGED <<pidlev, pst, rc>>

\* the receivers are launched, rx1 then rx2
P_LaunchRx(r) ==
  /\ impl \in PreflightImpls /\ pc = "launch"
  /\ pst[r] = "none"
  /\ r = "rx2" => pst["rx1"] # "none"
  /\ pst' = [pst EXCEPT ![r] = "live"]
  /\ UNCHANGED <<pidlev, pc, rc, exitStatus, exitCause>>

\* the transmitter is launched once both receivers were
P_LaunchTx ==
  /\ impl \in PreflightImpls /\ pc = "launch"
  /\ \A r \in RX : pst[r] # "none"
  /\ pst' = [pst EXCEPT !["tx"] = "live"]
  /\ pc' = "txwait"
  /\ UNCHANGED <<pidlev, rc, exitStatus, exitCause>>

NextPreflight ==
  \/ P_Preflight
  \/ \E r \in RX : P_LaunchRx(r)
  \/ P_LaunchTx
  \/ \E p \in PROCS, code \in {0, 1} : ProcExit(p, code, FALSE)

SpecPreflight == InitPreflight /\ [][NextPreflight]_vars

\* ------------------------------------------------ the log-draining thread
\* _tee_and_detect / _tee_and_detect_ready against the output of the
\* receiver it follows. The process writes lines (and, last, possibly a
\* piece without a newline) into its stdout pipe and ends, by itself or
\* abnormally, at any point; what it wrote stays in the pipe until read.
Teeing == impl = "tee"

\* a piece of output: a line, or a last piece without its newline
Pieces == Lines \cup {"partial"}

TeeConfigs ==
  [runs : {1}, max_retries : {1}, hw_trigger : BOOLEAN, enabled : {RX},
   serials : {FALSE}]

InitTee ==
  /\ impl = "tee"
  /\ cfg \in TeeConfigs
  /\ pc = "wait" /\ run = 1 /\ attempt = 0
  /\ ok = [r \in RX |-> FALSE]
  /\ ret = 0 /\ result = "none" /\ exitStatus = 0 /\ exitCause = "none"
  /\ pst = [p \in PROCS |-> IF p \in RX THEN "live" ELSE "none"]
  /\ rc = [p \in PROCS |-> 0]
  /\ term = [p \in PROCS |-> FALSE]
  /\ stragglers = {}
  /\ ready = [r \in RX |-> FALSE]
  /\ timer = [r \in RX |-> "idle"]
  /\ reader = [r \in RX |-> "readline"]
  /\ matched = [r \in RX |-> FALSE]
  /\ canon = NoFiles
  /\ tryIq = [k \in Attempts |-> NoFiles]
  /\ tryLog = [k \in Attempts |-> NoLogs]
  /\ latest = 0
  /\ nAttempts = 0 /\ nFailed = 0 /\ nSleeps = 0 /\ succ = 0 /\ exhausted = 0
  /\ diedUnready = [r \in RX |-> FALSE]
  /\ WrapIdle
  /\ GuardIdle
  /\ TeeIdle
  /\ TimeIdle
  /\ joint = "none"

\* what the thread and its process never change
tidlev == <<confv, wrapv, guardv, timev, joint, orchv, rc, term, stragglers, timer, filev,
            histv>>

\* a thread that returns without reading what is left in the pipe
NoDrain(rest) == <<>>

\* rest = proc.stdout.read(); if rest: lf.write(rest)
Drain(rest) == rest

\* the process writes a piece of output; nothing follows a piece that has
\* no newline
Emit(r, piece) ==
  /\ Teeing /\ pst[r] = "live"
  /\ Len(out[r]) < MaxOut
  /\ IF out[r] = <<>> THEN TRUE ELSE out[r][Len(out[r])] # "partial"
  /\ out' = [out EXCEPT ![r] = Append(@, piece)]
  /\ pipe' = [pipe EXCEPT ![r] = Append(@, piece)]
  /\ UNCHANGED <<tidlev, pst, sigv, log>>

\* the process ends, by itself (how = "exited") or killed (how = "killed")
EmitterEnds(r, how) ==
  /\ Teeing /\ pst[r] = "live"
  /\ pst' = [pst EXCEPT ![r] = how]
  /\ UNCHANGED <<tidlev, sigv, teev>>

\* chunk = proc.stdout.readline() returns a whole line, or at end of file
\* the piece without a newline; lf.write(chunk); the line is matched
T_ReadLine(r) ==
  /\ Teeing /\ reader[r] = "readline"
  /\ pipe[r] # <<>>
  /\ Head(pipe[r]) = "partial" => pst[r] # "live"
  /\ log' = [log EXCEPT ![r] = Append(@, Head(pipe[r]))]
  /\ pipe' = [pipe EXCEPT ![r] = Tail(@)]
  /\ ready' = [ready EXCEPT
       ![r] = IF DetectsReady(Head(pipe[r]), ready[r])
                THEN EventSet(ready[r]) ELSE @]
  /\ matched' = [matched EXCEPT ![r] = @ \/ Head(pipe[r]) = "armed"]
  /\ reader' = [reader EXCEPT ![r] = "poll"]
  /\ UNCHANGED <<tidlev, pst, timer, out>>

\* readline returns b"" at end of file: nothing is written
T_ReadEof(r) ==
  /\ Teeing /\ reader[r] = "readline"
  /\ pipe[r] = <<>> /\ pst[r] # "live"
  /\ reader' = [reader EXCEPT ![r] = "poll"]
  /\ UNCHANGED <<tidlev, pst, ready, timer, matched, teev>>

\* if proc.poll() is not None: drain the rest into the log and return
T_Poll(r) ==
  /\ Teeing /\ reader[r] = "poll"
  /\ IF pst[r] # "live"
       THEN /\ log' = [log EXCEPT ![r] = @ \o Drain(pipe[r])]
            /\ pipe' = [pipe EXCEPT ![r] = <<>>]
            /\ reader' = [reader EXCEPT ![r] = "done"]
       ELSE /\ reader' = [reader EXCEPT ![r] = "readline"]
            /\ UNCHANGED <<pipe, log>>
  /\ UNCHANGED <<tidlev, pst, ready, timer, matched, out>>

NextTee ==
  \/ \E r \in RX, piece \in Pieces : Emit(r, piece)
  \/ \E r \in RX, how \in {"exited", "killed"} : EmitterEnds(r, how)
  \/ \E r \in RX : T_ReadLine(r)
  \/ \E r \in RX : T_ReadEof(r)
  \/ \E r \in RX : T_Poll(r)

SpecTee == InitTee /\ [][NextTee]_vars

\* ------------------------------------------------- the completion wait, timed
\* The wait for the receivers after the transmitter has returned, with a
\* clock. The clock starts when the wait begins; the controller's own
\* statements take no time; a receiver ends at any moment.
HarvestCollector == impl = "harvest_run_collection"
HarvestCapture == impl = "harvest_run_capture"

\* runtime: nsamples / sample_rate; margin: safety_margin_s
DeadlineConfigs ==
  [runs : {1}, max_retries : {1}, hw_trigger : {FALSE}, enabled : {RX},
   serials : {FALSE}, runtime : {0, 10}, margin : {0, 5}]

InitDeadline ==
  /\ impl \in {"harvest_run_collection", "harvest_run_capture"}
  /\ cfg \in DeadlineConfigs
  /\ pc = "begin1" /\ run = 1 /\ attempt = 1
  /\ ok = [r \in RX |-> FALSE]
  /\ ret = 0 /\ result = "none" /\ exitStatus = 0 /\ exitCause = "none"
  /\ pst = [p \in PROCS |-> IF p \in RX THEN "live" ELSE "exited"]
  /\ rc = [p \in PROCS |-> 0]
  /\ term = [p \in PROCS |-> FALSE]
  /\ stragglers = {}
  /\ ready = [r \in RX |-> TRUE]
  /\ timer = [r \in RX |-> "idle"]
  /\ reader = [r \in RX |-> "idle"]
  /\ matched = [r \in RX |-> FALSE]
  /\ canon = NoFiles
  /\ tryIq = [k \in Attempts |-> NoFiles]
  /\ tryLog = [k \in Attempts |-> NoLogs]
  /\ latest = 0
  /\ nAttempts = 1 /\ nFailed = 0 /\ nSleeps = 0 /\ succ = 0 /\ exhausted = 0
  /\ diedUnready = [r \in RX |-> FALSE]
  /\ WrapIdle
  /\ GuardIdle
  /\ TeeIdle
  /\ TimeIdle
  /\ joint = "none"

\* what the completion wait never changes
didlev == <<confv, wrapv, guardv, teev, joint, run, attempt, ok, ret, exitStatus,
            exitCause, stragglers, sigv, filev, histv>>

Max2(a, b) == IF a >= b THEN a ELSE b

\* deadline = time.monotonic() + capture_secs + safety_margin_s + 2.0
CaptureDeadline(start, runtime, margin) == start + runtime + margin + Grace

\* remaining = max(0.1, deadline - time.monotonic())
Remaining(deadline, t) == Max2(MinRemaining, deadline - t)

\* rx_deadline = max(2.0, cfg.safety_margin_s + 2.0)
CollectorTimeout(margin) == Max2(CollectorFloor, margin + Grace)

BeginPc(r) == IF r = "rx1" THEN "begin1" ELSE "begin2"
WaitPc(r) == IF r = "rx1" THEN "wait1" ELSE "wait2"
TermPc(r) == IF r = "rx1" THEN "term1" ELSE "term2"
AfterPc(r) == IF r = "rx1" THEN "begin2" ELSE "finish"

\* rx.wait(timeout=rx_deadline) / proc.wait(timeout=remaining) is entered
D_StartWait(r) ==
  /\ HarvestCollector \/ HarvestCapture
  /\ pc = BeginPc(r)
  /\ waitTo' = now + (IF HarvestCollector
                        THEN CollectorTimeout(cfg.margin)
                        ELSE Remaining(CaptureDeadline(0, cfg.runtime, cfg.margin),
                                       now))
  /\ pc' = WaitPc(r)
  /\ UNCHANGED <<didlev, result, pst, rc, term, now, treatedAt>>

\* the wait returns: the receiver has ended
D_Returned(r) ==
  /\ HarvestCollector \/ HarvestCapture
  /\ pc \in {WaitPc(r), TermPc(r)}
  /\ pst[r] # "live"
  /\ pc' = AfterPc(r)
  /\ UNCHANGED <<didlev, result, pst, rc, term, timev>>

\* the wait times out with the receiver running: TimeoutExpired.
\* run_collection: the exception reaches the handler. run_capture:
\* proc.terminate(), then proc.wait(timeout=2.0)
D_Timeout(r) ==
  /\ HarvestCollector \/ HarvestCapture
  /\ pc = WaitPc(r)
  /\ pst[r] = "live" /\ now = waitTo
  /\ treatedAt' = [treatedAt EXCEPT ![r] = now]
  /\ IF HarvestCollector
       THEN /\ pc' = "except"
            /\ UNCHANGED <<term, waitTo>>
       ELSE /\ pc' = TermPc(r)
            /\ term' = [term EXCEPT ![r] = TRUE]
            /\ waitTo' = now + TermGrace
  /\ UNCHANGED <<didlev, result, pst, rc, now>>

\* run_capture: the receiver outlives the 2.0 s after terminate: proc.kill()
D_Kill(r) ==
  /\ HarvestCapture
  /\ pc = TermPc(r)
  /\ pst[r] = "live" /\ now = waitTo
  /\ pst' = [pst EXCEPT ![r] = "killed"]
  /\ term' = [term EXCEPT ![r] = FALSE]
  /\ pc' = AfterPc(r)
  /\ UNCHANGED <<didlev, result, rc, timev>>

\* run_collection: except Exception: _terminate(rx1), _terminate(rx2)
D_Except ==
  /\ HarvestCollector /\ pc = "except"
  /\ \E hows \in Hows :
       /\ pst' = [p \in PROCS |-> Terminated(pst[p], hows[p])]
       /\ rc' = [p \in PROCS |-> TerminatedRc(pst[p], hows[p], rc[p])]
  /\ result' = "Failed"
  /\ pc' = "exit"
  /\ UNCHANGED <<didlev, term, timev>>

\* both waits are over. run_collection: a non-zero returncode raises.
\* run_capture: return 0 if tx_rc == 0 else tx_rc
D_Finish ==
  /\ HarvestCollector \/ HarvestCapture
  /\ pc = "finish"
  /\ IF HarvestCollector /\ \E r \in RX : rc[r] # 0
       THEN pc' = "except" /\ UNCHANGED result
       ELSE pc' = "exit" /\ result' = "Succeeded"
  /\ UNCHANGED <<didlev, pst, rc, term, timev>>

\* a tenth of a second passes while the controller waits
Tick ==
  /\ HarvestCollector \/ HarvestCapture
  /\ pc \in {"wait1", "wait2", "term1", "term2"}
  /\ now < waitTo /\ now < MaxTime
  /\ now' = now + 1
  /\ UNCHANGED <<didlev, result, pst, rc, term, pc, waitTo, treatedAt>>

NextDeadline ==
  \/ \E r \in RX : D_StartWait(r)
  \/ \E r \in RX : D_Returned(r)
  \/ \E r \in RX : D_Timeout(r)
  \/ \E r \in RX : D_Kill(r)
  \/ D_Except
  \/ D_Finish
  \/ Tick
  \/ \E r \in RX, code \in {0, 1} : ProcExit(r, code, FALSE)
  \/ \E r \in RX : ProcTermExit(r)

SpecDeadline == InitDeadline /\ [][NextDeadline]_vars

\* ------------------------------------------------- cleanup by serial
\* cleanup_hackrf_serial against a table of hackrf_transfer processes, each
\* started with "-d <serial>" or without -d. Serials are short digit
\* strings, so that one can be the beginning of another.
Cleaning == impl = "cleanup"

Serials == {<<>>, <<1>>, <<1, 1>>, <<1, 2>>, <<2>>}

\* bound[p]: the serial on the command line of process p (<<>>: no -d)
CleanupConfigs ==
  [runs : {1}, max_retries : {1}, hw_trigger : {FALSE}, enabled : {RX},
   serials : {TRUE}, bound : [PROCS -> Serials]]

InitCleanup ==
  /\ impl = "cleanup"
  /\ cfg \in CleanupConfigs
  /\ pc = "idle" /\ run = 1 /\ attempt = 0
  /\ ok = [r \in RX |-> FALSE]
  /\ ret = 0 /\ result = "none" /\ exitStatus = 0 /\ exitCause = "none"
  /\ pst = [p \in PROCS |-> "live"]
  /\ rc = [p \in PROCS |-> 0]
  /\ term = [p \in PROCS |-> FALSE]
  /\ stragglers = {}
  /\ ready = [r \in RX |-> FALSE]
  /\ timer = [r \in RX |-> "idle"]
  /\ reader = [r \in RX |-> "idle"]
  /\ matched = [r \in RX |-> FALSE]
  /\ canon = NoFiles
  /\ tryIq = [k \in Attempts |-> NoFiles]
  /\ tryLog = [k \in Attempts |-> NoLogs]
  /\ latest = 0
  /\ nAttempts = 0 /\ nFailed = 0 /\ nSleeps = 0 /\ succ = 0 /\ exhausted = 0
  /\ diedUnready = [r \in RX |-> FALSE]
  /\ WrapIdle
  /\ GuardIdle
  /\ TeeIdle
  /\ TimeIdle
  /\ joint = "none"

\* cleanup_hackrf_serial(serial): nothing for None or "", else
\* pkill -f "hackrf_transfer.*-d[[:space:]]*{serial}": SIGTERM to every
\* process whose command line matches
K_Cleanup(serial) ==
  /\ Cleaning /\ pc = "idle"
  /\ term' = [p \in PROCS |->
                term[p] \/ (serial # <<>> /\ pst[p] = "live"
                              /\ PgrepMatches(serial, cfg.bound[p]))]
  /\ UNCHANGED <<confv, wrapv, guardv, teev, timev, joint, orchv, pst, rc, stragglers,
                 sigv, filev, histv>>

NextCleanup ==
  \/ \E serial \in Serials : K_Cleanup(serial)
  \/ \E p \in PROCS : ProcTermExit(p)

SpecCleanup == InitCleanup /\ [][NextCleanup]_vars

\* ------------------------------------------------------------------ claims
Live(p) == pst[p] = "live"
NewAttempt == nAttempts' = nAttempts + 1

\* C1: whenever the transmitter of an attempt has been launched, the
\* readiness signal of every enabled receiver is set (both controllers, both
\* hw_trigger settings).
C1_TxOnlyAfterAllReady ==
  pst["tx"] # "none" => \A r \in cfg.enabled : ready[r]

\* run_session without the trigger flag launched the transmitter, one
\* receiver made ready by a matching line, the other by its fallback timer
C1_Witness ==
  /\ Session /\ ~cfg.hw_trigger /\ cfg.enabled = RX
  /\ Live("tx")
  /\ matched["rx1"] /\ timer["rx1"] = "armed"
  /\ ~matched["rx2"] /\ timer["rx2"] = "fired"

\* C2 (as stated): a receiver that exited non-zero while its readiness signal
\* was unset means no transmitter is launched in that attempt and the attempt
\* does not end Succeeded.
C2_DiedUnreadyNoTx ==
  \A r \in cfg.enabled :
    diedUnready[r] => pst["tx"] = "none" /\ result # "Succeeded"

\* C3 (as stated): each canonical file is absent or holds the data of the
\* attempt of the run that ended Succeeded.
C3_CanonOnlySucceeded ==
  \A r \in RX : canon[r] = NoFile \/ (succ # 0 /\ canon[r] = <<succ, r>>)

\* C4 (as stated): once an attempt of the run ended Succeeded, both canonical
\* files hold exactly that attempt's data and no attempt-scoped file of the
\* run remains.
C4_NoAttemptFileRemains ==
  Collector /\ succ # 0 =>
    /\ \A r \in RX : canon[r] = <<succ, r>>
    /\ \A k \in Attempts : tryIq[k] = NoFiles /\ tryLog[k] = NoLogs

\* C4 (amended): once an attempt of the run ended Succeeded, both canonical
\* files hold exactly that attempt's data and no attempt-scoped IQ file of
\* that attempt remains (its logs, and the files of earlier Failed attempts,
\* stay in the run directory).
C4_PromotedExactly ==
  Collector /\ succ # 0 =>
    /\ \A r \in RX : canon[r] = <<succ, r>>
    /\ tryIq[succ] = NoFiles

\* the second attempt succeeded after a first one that left its rx1 file
C4_Witness ==
  /\ Collector /\ succ = 2 /\ result = "Succeeded"
  /\ tryIq[1]["rx1"] = <<1, "rx1">>
  /\ canon = [r \in RX |-> <<2, r>>]

\* C5 (as stated): once a run's attempts are exhausted no run with a larger
\* index is started.
C5_NoRunAfterExhaustion ==
  exhausted # 0 => run = exhausted

\* C6: run_collection with max_retries >= 1. While attempts fail, each
\* failure but the last is followed by one backoff sleep and then by the next
\* attempt; when max_retries attempts have failed, exactly max_retries were
\* made, max_retries - 1 sleeps were taken and the session has ended with a
\* non-zero status.
C6_ExactlyMaxAttempts ==
  Collector /\ cfg.max_retries >= 1 /\ run >= 1 =>
    /\ nAttempts <= cfg.max_retries
    /\ nSleeps = (IF nFailed = cfg.max_retries THEN nFailed - 1 ELSE nFailed)
    /\ nAttempts \in {nSleeps, nSleeps + 1}
    /\ (nFailed = cfg.max_retries <=>
          (pc = "exit" /\ exitCause = "aborted" /\ exitStatus # 0))
    /\ (nFailed = cfg.max_retries => nAttempts = cfg.max_retries)

\* two attempts, both failed, one sleep between them, aborted
C6_Witness ==
  /\ Collector /\ cfg.max_retries = 2
  /\ nAttempts = 2 /\ nFailed = 2 /\ nSleeps = 1
  /\ exitCause = "aborted" /\ exitStatus = ExitAborted

\* C7 (as stated): after an attempt ended Failed, none of its processes is
\* alive when the next attempt or run launches a process, nor when the
\* session exits.
C7_FailedAttemptTerminated ==
  [][result = "Failed" =>
       /\ (NewAttempt => \A p \in PROCS : ~Live(p))
       /\ (pc' = "exit" => \A p \in PROCS : pst'[p] # "live")]_vars

\* C8 (as stated): when the controller has exited on an interrupt, no capture
\* process bound to a configured serial is alive.
C8_InterruptTerminatesAll ==
  exitCause = "interrupt" =>
    \A p \in PROCS : (Live(p) \/ p \in stragglers) => SerialOf(p) = <<>>

\* C9 (as stated): no serial has two live processes launched by the
\* controller (the one of the current attempt and one of an earlier attempt).
C9_OneProcessPerSerial ==
  \A p \in PROCS : SerialOf(p) # <<>> => ~(Live(p) /\ p \in stragglers)

\* C10: within an attempt a readiness signal that is set stays set; a step
\* in which its other source fires (the timer after a match, a match after
\* the timer) leaves the signals and the controller where they were.
C10_ReadyOneShot ==
  [][\A r \in RX :
       (ready[r] /\ ~NewAttempt) =>
         /\ ready'[r]
         /\ (((timer'[r] = "fired" /\ timer[r] # "fired") \/ matched'[r] # matched[r]) =>
               (ready' = ready /\ pc' = pc /\ result' = result))]_vars

\* both sources of rx1's signal have fired and the signal is set
C10_Witness ==
  /\ Session /\ matched["rx1"] /\ timer["rx1"] = "fired" /\ ready["rx1"]
  /\ pc = "ready"

\* C11 (as stated): a receiver whose capture process stays alive and writes
\* nothing is declared ready once the fallback timeout has elapsed: from a
\* state where the timeout has elapsed and the child is alive and silent,
\* READY is printed unless the child writes or ends, or the wrapper ends.
C11_SilentStillReady ==
  \A r \in RX :
    (pst[r] = "live" /\ child[r] = "live" /\ ~emitted[r] /\ elapsed[r])
      ~> (readySent[r] \/ emitted[r] \/ child[r] # "live" \/ pst[r] # "live")

\* C12 (as stated): with both receivers silent and the fallback timeout
\* shorter than the joint-readiness timeout, the capture does not end with a
\* readiness timeout.
C12_SilentNoReadinessFailure ==
  (cfg.fallback_first /\ \A r \in RX : ~emitted[r]) =>
     ~(result = "Failed" /\ ret = LibReadyTimeout)

\* C13 (as stated): when the joint-readiness timeout of an attempt elapsed
\* while a readiness signal was unset, no transmitter is launched in the
\* attempt and it does not end Succeeded.
C13_JointTimeoutFails ==
  joint = "missed" => pst["tx"] = "none" /\ result # "Succeeded"

\* C14: an attempt whose transmitter exited non-zero, or was ended after the
\* transmit timeout, is not Succeeded and nothing of it is promoted; in
\* run_collection the wait for a transmitter that has not exited with zero
\* can only be left by raising, which makes the attempt Failed and leaves the
\* canonical files as they were.
C14_TxFailureNeverSucceeds ==
  /\ []((pst["tx"] = "killed" \/ (pst["tx"] = "exited" /\ rc["tx"] # 0)) =>
          (result # "Succeeded" /\ succ = 0
             /\ \A r \in RX : canon[r] # <<attempt, r>>))
  /\ [][(Collector /\ pc = "txwait" /\ pc' # pc
            /\ ~(pst["tx"] = "exited" /\ rc["tx"] = 0)) =>
          (pc' = "except" /\ result' = "Failed" /\ canon' = canon
             /\ succ' = 0 /\ tryIq' = tryIq)]_vars

\* run_collection: the transmitter exited with 1, the attempt is Failed and
\* both attempt-scoped IQ files are still where the receivers wrote them
C14_Witness ==
  /\ Collector /\ pst["tx"] = "exited" /\ rc["tx"] = 1
  /\ result = "Failed" /\ pc = "attemptloop"
  /\ \A r \in RX : tryIq[attempt][r] = <<attempt, r>>
  /\ canon = NoFiles

\* C15 (as stated): the wait for the transmitter is always left: once the
\* transmitter has been started the capture reaches a terminal result.
C15_TriggeringAlwaysLeft ==
  (pc = "txwait") ~> (result \in {"Succeeded", "Failed"})

\* C16 (as stated): an attempt is Succeeded only if every enabled receiver
\* exited by itself with code zero.
C16_SucceededOnlyIfReceiversZero ==
  result = "Succeeded" =>
    \A r \in cfg.enabled : pst[r] = "exited" /\ rc[r] = 0

\* C17 (as stated): an attempt in which a receiver had to be ended at the
\* completion deadline (terminate, then kill) is not Succeeded.
C17_TerminatedReceiverFails ==
  (\E r \in cfg.enabled :
      pst[r] = "killed" \/ (pst[r] = "exited" /\ rc[r] = SigTermRc)) =>
    result # "Succeeded"

\* C18 (as stated): a process that the post-run guard has signalled is no
\* longer alive when the next run launches its processes.
C18_SignalledDeadBeforeNextRun ==
  [][NewAttempt => \A p \in PROCS : ~(Live(p) /\ term[p])]_vars

\* C19 (as stated): a pre-run check that found a serial busy at its expiry
\* has surfaced a warning for it (the run being started all the same).
C19_PreRunBusyWarned ==
  \A p \in preBusy : <<"pre", p>> \in warned

C21_LatestMirrorsLastRun ==
  (Collector /\ pc = "exit" /\ exitCause = "done") => latest = cfg.runs

\* C22 (as stated): with an invalid configuration (missing waveform file,
\* missing tool, absent serial, non-positive sample rate or count) no
\* receiver or transmitter process is ever launched.
C22_ConfigErrorBeforeLaunch ==
  cfg.defects # {} => \A p \in PROCS : pst[p] = "none"

\* C23: once the reader has read a line matching a readiness pattern, the
\* receiver's readiness is signalled, set in the very step that reads the
\* line and whether or not the fallback timer has fired.
C23_MatchSignalsAtOnce ==
  [][\A r \in RX : (matched'[r] /\ ~matched[r]) => ready'[r]]_vars

\* a matching line was read and readiness is set while the fallback timer
\* is still armed
C23_Witness ==
  /\ Session /\ matched["rx1"] /\ ready["rx1"]
  /\ timer["rx1"] = "armed" /\ pst["rx1"] = "live"

\* C24: one invocation of the wrapper prints READY at most once, whether
\* from a matching line, from the fallback timeout or from both, and prints
\* none once it has seen its capture process exited.
C24_ReadyPrintedOnce ==
  [][\A r \in RX :
       readyOut'[r] # readyOut[r] =>
         (readyOut[r] = 0 /\ readyOut'[r] = 1 /\ wpc[r] # "returned")]_vars

\* the wrapper of rx1 has returned after its capture process emitted output
\* and the fallback timeout had elapsed, with one READY printed
C24_Witness ==
  /\ Handshake /\ wpc["rx1"] = "returned"
  /\ emitted["rx1"] /\ elapsed["rx1"]
  /\ readyOut["rx1"] = 1

\* C25: when the log-draining thread of a receiver has returned, the
\* receiver's log file holds exactly the output the process emitted, in
\* order and without loss, also when the process was killed with output
\* still in the pipe.
C25_LogHoldsAllOutput ==
  \A r \in RX : reader[r] = "done" => log[r] = out[r]

\* rx1 was killed with output still unread; its thread has returned with a
\* log of every piece
C25_Witness ==
  /\ Teeing /\ reader["rx1"] = "done" /\ pst["rx1"] = "killed"
  /\ Len(out["rx1"]) = MaxOut /\ out["rx1"][MaxOut] = "partial"
  /\ log["rx1"] = out["rx1"]

\* C26 (as stated): a receiver is treated as not finished exactly when the
\* one deadline of the attempt is reached: expected runtime plus safety
\* margin plus the fixed grace after the completion wait began.
C26_OneSharedDeadline ==
  \A r \in RX :
    treatedAt[r] # 0 - 1 => treatedAt[r] = cfg.runtime + cfg.margin + Grace

\* C27 (as stated): cleanup by serial signals only processes bound to
\* exactly the given serial, and nothing when the serial is empty.
C27_CleanupExactSerial ==
  [][\A serial \in Serials :
       K_Cleanup(serial) =>
         \A p \in PROCS :
           (term'[p] /\ ~term[p]) => (serial # <<>> /\ cfg.bound[p] = serial)]_vars

\* C28: once the readiness phase has passed, run_capture returns the
\* transmitter's exit code (0 when it is 0), whatever became of the
\* receivers; before that it returns 2, 3 or 4, one code per readiness
\* failure, none of them zero.
C28_ReturnFollowsTx ==
  /\ [][(Session /\ pc = "finish" /\ pc' # pc) => ret' = rc["tx"]]_vars
  /\ [][(Session /\ pc \in {"launch", "ready"} /\ pc' = "post") =>
          ret' = (IF cfg.enabled = {} THEN RetNoReceivers
                  ELSE IF DiedBeforeReady THEN RetDiedBeforeReady
                  ELSE RetReadyTimeout)]_vars
  /\ [](Cardinality({0, RetNoReceivers, RetDiedBeforeReady, RetReadyTimeout}) = 4)

\* the transmitter exited with 1 and that is what was returned, with rx1
\* killed at the deadline and rx2 exited non-zero
C28_Witness ==
  /\ Session /\ pc = "post" /\ ret = 1 /\ rc["tx"] = 1
  /\ pst["rx1"] = "killed"
  /\ pst["rx2"] = "exited" /\ rc["rx2"] = 1

\* C29 (as stated): run_collection leaves the attempt loop of a run for the
\* next run, or for the end of the session, only after an attempt of that
\* run ended Succeeded, whatever max_retries is.
C29_AdvanceOnlyAfterSuccess ==
  (Collector /\ pc = "postrun") => succ # 0

\* C30: the stale-file removal at the start of attempt k leaves the run's
\* canonical files and the files of every other attempt as they were.
C30_RemovalOnlyOwnAttempt ==
  [][(Collector /\ NewAttempt) =>
       /\ canon' = canon
       /\ \A k \in Attempts \ {attempt'} :
            tryIq'[k] = tryIq[k] /\ tryLog'[k] = tryLog[k]]_vars

\* attempt 2 has begun and the files attempt 1 left are still there
C30_Witness ==
  /\ Collector /\ attempt = 2 /\ pc \in {"wait1", "sleep"}
  /\ tryIq[1]["rx1"] = <<1, "rx1">> /\ tryLog[1]["rx1"]
  /\ tryIq[2] = NoFiles /\ canon = NoFiles
====
